---- MODULE Spec2Model ----
(***************************************************************************)
(* State-machine model of the MPU9250 acquisition/broadcast server:        *)
(*   mpu_buffer.py  - MPUChannel, MPU9250Buffer (engine, reader loop)      *)
(*   mpu_socket.py  - MPUSocketServerNonBlocking (dispatch, arbiter,       *)
(*                    broadcast loop)                                      *)
(* Three kinds of thread run concurrently: the selector (dispatch) thread, *)
(* the broadcast thread and the reader thread(s) started by start().       *)
(* The dispatch and broadcast threads exclude each other through           *)
(* _clients_lock; the reader threads take no lock.                         *)
(***************************************************************************)
EXTENDS Integers, Sequences, FiniteSets, TLC

(***************************************************************************)
(* Bounds of the model.                                                    *)
(***************************************************************************)
\* clients that connect, where the connection limit is not approached
NumClients == 2
\* clients that connect where the connection limit is checked (one above
\* the limit)
MaxConns == 4
\* reader threads that can be alive at once (stop() joins with a timeout)
MaxReaders == 2
\* q_size the engine is constructed with; the device delivers QSize packets
\* where the queue is not to overflow and QSize + 1 where it is
QSize == 2

\* connection limit of _accept
MaxClients == 3

(***************************************************************************)
(* MPUChannel (IntFlag).  A flag value is modelled as the set of its bits, *)
(* each bit named by its single-bit member; | is \cup and & is \cap.       *)
(***************************************************************************)
AtomicOrder ==
  <<"ACCEL_X", "ACCEL_Y", "ACCEL_Z", "GYRO_X", "GYRO_Y", "GYRO_Z",
    "MAGN_X", "MAGN_Y", "MAGN_Z">>

Range(s) == {s[i] : i \in DOMAIN s}

Atomic == Range(AtomicOrder)

NONE == {}

MemberNames == Atomic \cup {"NONE", "ACCEL_XYZ", "GYRO_XYZ", "MAGN_XYZ", "ALL"}

\* MPUChannel[name], for a name in MemberNames (any other name raises KeyError)
MPUChannel(name) ==
  CASE name \in Atomic -> {name}
    [] name = "NONE" -> NONE
    [] name = "ACCEL_XYZ" -> {"ACCEL_X", "ACCEL_Y", "ACCEL_Z"}
    [] name = "GYRO_XYZ" -> {"GYRO_X", "GYRO_Y", "GYRO_Z"}
    [] name = "MAGN_XYZ" -> {"MAGN_X", "MAGN_Y", "MAGN_Z"}
    [] name = "ALL" -> Atomic

\* bin(f.value).count('1')
PopCount(flag) == Cardinality(flag)

\* str.lower() / str.upper() on the member names and the spellings clients use
LowerTable ==
  [n \in MemberNames |->
     CASE n = "ACCEL_X" -> "accel_x" [] n = "ACCEL_Y" -> "accel_y"
       [] n = "ACCEL_Z" -> "accel_z" [] n = "GYRO_X" -> "gyro_x"
       [] n = "GYRO_Y" -> "gyro_y" [] n = "GYRO_Z" -> "gyro_z"
       [] n = "MAGN_X" -> "magn_x" [] n = "MAGN_Y" -> "magn_y"
       [] n = "MAGN_Z" -> "magn_z" [] n = "NONE" -> "none"
       [] n = "ACCEL_XYZ" -> "accel_xyz" [] n = "GYRO_XYZ" -> "gyro_xyz"
       [] n = "MAGN_XYZ" -> "magn_xyz" [] n = "ALL" -> "all"]

Lower(s) == IF s \in MemberNames THEN LowerTable[s] ELSE s

UpperTable ==
  [s \in {LowerTable[n] : n \in MemberNames} |->
     CHOOSE n \in MemberNames : LowerTable[n] = s]

\* names compared as they are spelled
UpperNone(s) == s

Upper(s) == IF s \in DOMAIN UpperTable THEN UpperTable[s] ELSE s

\* _get_sysfs_base_name: flag.name.lower().replace("gyro", "anglvel")
SysfsBaseName(flag) ==
  CASE flag = "GYRO_X" -> "anglvel_x"
    [] flag = "GYRO_Y" -> "anglvel_y"
    [] flag = "GYRO_Z" -> "anglvel_z"
    [] OTHER -> Lower(flag)

(***************************************************************************)
(* State.                                                                  *)
(***************************************************************************)
VARIABLES
  clients,     \* _clients: a function from the connections in the table to ClientState
  order,       \* key order of the _clients dict (insertion order)
  sock,        \* each connection's socket: "free" (none yet), "pending" (in
               \* the listen backlog), "open" (accepted), "refused" (closed
               \* by _accept) or "closed" (closed by _remove_client)
  registered,  \* client sockets registered with the selector
  lock,        \* owner of _clients_lock: "free", "dispatch" or "broadcast"
  dpc,         \* the selector thread: where it is in _accept/_read_command
  bpc,         \* the broadcast thread: where it is in _broadcast_loop
  arb,         \* "join" while _update_hardware waits in stop(), else "none"
  mpu,         \* MPU9250Buffer: _running, _thread, _active_configs,
               \* _packet_format, _packet_size
  dev,         \* the device: buffer/enable and scan_elements/in_*_en
  index_attr,  \* the device: scan_elements/in_*_index (NoFile: no such file)
  queue,       \* _data_queue
  rpc,         \* each reader thread's position in _reader_loop
  rloc,        \* each reader thread's locals (raw_bytes, data)
  produced,    \* packets the device has delivered so far
  sent         \* per connection, the last payload sendall wrote to it

vars ==
  <<clients, order, sock, registered, lock, dpc, bpc, arb, mpu, dev,
    index_attr, queue, rpc, rloc, produced, sent>>

Conns == 1..MaxConns

Readers == 1..MaxReaders

\* _read_sysfs returns None when the file does not exist
NoFile == -1

SysfsNames == {SysfsBaseName(f) : f \in Atomic}

\* the index files of a device that has all of them, in enumeration order
FullIndex ==
  [b \in SysfsNames |->
     CHOOSE i \in 0..8 : SysfsBaseName(AtomicOrder[i + 1]) = b]

(***************************************************************************)
(* MPU9250Buffer.config_channels                                           *)
(***************************************************************************)
\* the sysfs name of each single-bit flag
SysfsTable == [f \in Atomic |-> SysfsBaseName(f)]

\* the loop over MPUChannel: one ChannelMeta per enabled single-bit flag whose
\* index file exists, in enumeration order (scale and offset are left out:
\* no decision of the program depends on them)
CollectMetas(selection, idx) ==
  LET enabled == SelectSeq(AtomicOrder,
                   LAMBDA f : f \in selection /\ idx[SysfsTable[f]] # NoFile)
  IN [i \in DOMAIN enabled |->
        [name |-> LowerTable[enabled[i]], index |-> idx[SysfsTable[enabled[i]]]]]

\* the list left in enumeration order
SortMetasNone(s) == s

\* temp_metas.sort(key=lambda m: m.index): a stable sort
RECURSIVE SortMetas(_)
SortMetas(s) ==
  IF s = <<>> THEN <<>>
  ELSE LET n == Len(s)
           x == s[n]
           front == SortMetas(SubSeq(s, 1, n - 1))
           p == Cardinality({i \in DOMAIN front : front[i].index <= x.index})
       IN SubSeq(front, 1, p) \o <<x>> \o SubSeq(front, p + 1, Len(front))

\* every enable file written 1
ScanEnablesAll(selection) == [b \in SysfsNames |-> 1]

\* the scan_elements/in_*_en files after the loop
ScanEnables(selection) ==
  [b \in SysfsNames |->
     IF \E f \in selection : SysfsTable[f] = b THEN 1 ELSE 0]

\* struct.calcsize(">" + "h" * n)
CalcSize(n) == 2 * n

\* the engine after config_channels(selection)
ConfigMpu(m, selection, idx) ==
  LET metas == SortMetas(CollectMetas(selection, idx))
  IN [m EXCEPT !.active_configs = metas,
               !.packet_format = Len(metas),
               !.packet_size = CalcSize(Len(metas))]

\* the device after config_channels(selection)
ConfigDev(m, selection) ==
  [buffer_enable |-> IF m.running THEN 1 ELSE 0,
   scan_en |-> ScanEnables(selection)]


(***************************************************************************)
(* The wire.  What recv returns is a sequence of text fragments; NL is the *)
(* newline.  A command's JSON text is two fragments, the object up to its  *)
(* closing brace and the brace, so that a read can end inside a line and a *)
(* truncated object is malformed JSON.                                     *)
(***************************************************************************)
NL == "\n"

Close == "}"

\* the two bytes of a character that UTF-8 encodes in two; an object may
\* carry it in a further member (a note) after its action and params
Lead == "0xC3"

Cont == "0xA9"

\* a complete JSON document that is no object
Scalar == "5"

\* an element of params that is no string
NotAString == "#7"

\* the commands clients send: opening fragment -> the parsed object
Objects ==
  [f \in {"{start_send", "{stop_send", "{disconnect", "{reboot", "{cfg",
          "{cfg:5", "{cfg[7]", "{cfg[bogus]", "{cfg[ACCEL_X]", "{cfg[gyro_x]",
          "{cfg[accel_x,GYRO_X]", "{cfg[ACCEL_XYZ]", "{cfg[bogus,accel_y]"} |->
     CASE f = "{start_send" -> [action |-> "start_send", iterable |-> TRUE, params |-> <<>>]
       [] f = "{stop_send" -> [action |-> "stop_send", iterable |-> TRUE, params |-> <<>>]
       [] f = "{disconnect" -> [action |-> "disconnect", iterable |-> TRUE, params |-> <<>>]
       [] f = "{reboot" -> [action |-> "reboot", iterable |-> TRUE, params |-> <<>>]
       [] f = "{cfg" -> [action |-> "config_channels", iterable |-> TRUE, params |-> <<>>]
       [] f = "{cfg:5" -> [action |-> "config_channels", iterable |-> FALSE, params |-> <<>>]
       [] f = "{cfg[7]" -> [action |-> "config_channels", iterable |-> TRUE, params |-> <<NotAString>>]
       [] f = "{cfg[bogus]" -> [action |-> "config_channels", iterable |-> TRUE, params |-> <<"bogus">>]
       [] f = "{cfg[ACCEL_X]" -> [action |-> "config_channels", iterable |-> TRUE, params |-> <<"ACCEL_X">>]
       [] f = "{cfg[gyro_x]" -> [action |-> "config_channels", iterable |-> TRUE, params |-> <<"gyro_x">>]
       [] f = "{cfg[accel_x,GYRO_X]" -> [action |-> "config_channels", iterable |-> TRUE, params |-> <<"accel_x", "GYRO_X">>]
       [] f = "{cfg[ACCEL_XYZ]" -> [action |-> "config_channels", iterable |-> TRUE, params |-> <<"ACCEL_XYZ">>]
       [] f = "{cfg[bogus,accel_y]" -> [action |-> "config_channels", iterable |-> TRUE, params |-> <<"bogus", "accel_y">>]]

\* json.loads(line): "object", "scalar" (a value without .get) or "error"
\* (JSONDecodeError)
JsonKind(line) ==
  IF Len(line) = 2 /\ line[1] \in DOMAIN Objects /\ line[2] = Close THEN "object"
  ELSE IF Len(line) = 4 /\ line[1] \in DOMAIN Objects /\ line[2] = Lead
          /\ line[3] = Cont /\ line[4] = Close THEN "object"
  ELSE IF line = <<Scalar>> THEN "scalar"
  ELSE "error"

JsonLoads(line) == Objects[line[1]]

\* "\n" in state["buffer"]
HasLine(buf) == \E i \in DOMAIN buf : buf[i] = NL

\* state["buffer"].split("\n", 1)
SplitLine(buf) ==
  LET i == CHOOSE k \in DOMAIN buf :
             buf[k] = NL /\ \A j \in 1..(k - 1) : buf[j] # NL
  IN [line |-> SubSeq(buf, 1, i - 1), rest |-> SubSeq(buf, i + 1, Len(buf))]

\* the loop of _process_command over params: new_mask |= MPUChannel[p.upper()],
\* every exception swallowed
RECURSIVE NewMask(_)
NewMask(params) ==
  IF params = <<>> THEN NONE
  ELSE LET p == Head(params)
           bits == IF p # NotAString /\ Upper(p) \in MemberNames
                   THEN MPUChannel(Upper(p)) ELSE NONE
       IN bits \cup NewMask(Tail(params))

(***************************************************************************)
(* The Hardware Arbiter's inputs (_update_hardware, first loop).           *)
(***************************************************************************)
\* a union that keeps one session's mask only
UnionMaskOfOne(tbl) ==
  IF DOMAIN tbl = {} THEN NONE
  ELSE tbl[CHOOSE c \in DOMAIN tbl : \A d \in DOMAIN tbl : c <= d].mask

\* union_mask |= info["mask"] over self._clients.values()
UnionMask(tbl) == UNION {tbl[c].mask : c \in DOMAIN tbl}

AnyStreaming(tbl) == \E c \in DOMAIN tbl : tbl[c].streaming

\* a removal that also resets the sessions that stay
WithoutReset(tbl, c) ==
  [x \in DOMAIN tbl \ {c} |-> [mask |-> NONE, streaming |-> FALSE, buffer |-> <<>>]]

\* del self._clients[conn], with the dict's key order
Without(tbl, c) == [x \in DOMAIN tbl \ {c} |-> tbl[x]]

OrderWithout(ord, c) == SelectSeq(ord, LAMBDA x : x # c)

DIdle == [pc |-> "idle", conn |-> 0, buf |-> <<>>]

BWait == [pc |-> "wait", data |-> [seq |-> 0, fields |-> {}], left |-> <<>>]

NoPayload == [seq |-> 0, fields |-> {}]

NoLocals == [seq |-> 0, size |-> 0, fields |-> {}]

NewMpu ==
  [running |-> FALSE, thread |-> 0, active_configs |-> <<>>,
   packet_format |-> 0, packet_size |-> 0]

\* the state after MPU9250Buffer.__init__ and
\* MPUSocketServerNonBlocking.__init__ and run(), on a device with the index
\* files idx
InitOn(devices) ==
  /\ clients = <<>>
  /\ order = <<>>
  /\ sock = [c \in Conns |-> "free"]
  /\ registered = {}
  /\ lock = "free"
  /\ dpc = DIdle
  /\ bpc = BWait
  /\ arb = "none"
  /\ mpu = NewMpu
  /\ dev = [buffer_enable |-> 0, scan_en |-> [b \in SysfsNames |-> 0]]
  /\ index_attr \in devices
  /\ queue = <<>>
  /\ rpc = [r \in Readers |-> "dead"]
  /\ rloc = [r \in Readers |-> NoLocals]
  /\ produced = 0
  /\ sent = [c \in Conns |-> NoPayload]


(***************************************************************************)
(* _update_hardware.  It runs under the lock, so the other server thread   *)
(* sees none of its intermediate states; it is one step up to the join of  *)
(* stop(), where it waits for the reader thread.                           *)
(***************************************************************************)
engine == <<mpu, dev, index_attr, queue, rpc, rloc, produced>>

Alive(RS) == {r \in RS : rpc[r] # "dead"}

\* the thread object start() creates
NewThread(RS) ==
  CHOOSE r \in RS : rpc[r] = "dead" /\ \A q \in RS : rpc[q] = "dead" => r <= q

\* step 1 of _update_hardware: whether config_channels and _flush_queue run
Reconfigures(tbl) == UnionMask(tbl) # NONE

\* MPU9250Buffer.start() is called and starts a thread
Starts(tbl, m) == AnyStreaming(tbl) /\ ~m.running /\ m.active_configs # <<>>

\* a stop only when the table is empty
StopsWhenEmpty(tbl, m) == DOMAIN tbl = {} /\ m.running

\* MPU9250Buffer.stop() is called
Stops(tbl, m) == ~AnyStreaming(tbl) /\ m.running

\* _flush_queue
FlushQueue(q) == <<>>

\* _update_hardware for the table tbl, up to the join of stop()
UpdateHardware(tbl, RS) ==
  LET m1 == IF Reconfigures(tbl)
            THEN ConfigMpu(mpu, UnionMask(tbl), index_attr) ELSE mpu
  IN /\ dev' = IF Reconfigures(tbl) THEN ConfigDev(mpu, UnionMask(tbl)) ELSE dev
     /\ queue' = IF Reconfigures(tbl) THEN FlushQueue(queue) ELSE queue
     /\ IF Starts(tbl, m1)
        THEN /\ mpu' = [m1 EXCEPT !.running = TRUE, !.thread = NewThread(RS)]
             /\ rpc' = [rpc EXCEPT ![NewThread(RS)] = "start"]
             /\ arb' = "none"
        ELSE IF Stops(tbl, m1)
        THEN /\ mpu' = [m1 EXCEPT !.running = FALSE]
             /\ rpc' = rpc
             /\ arb' = "join"
        ELSE /\ mpu' = m1
             /\ rpc' = rpc
             /\ arb' = "none"
     /\ UNCHANGED <<index_attr, rloc, produced>>

(***************************************************************************)
(* The selector thread: run() calling _accept and _read_command.           *)
(***************************************************************************)
\* a client connects: its socket waits in the listen backlog (one at a
\* time).  A slot is reused only when no thread still holds the old socket.
Connect(c) ==
  /\ sock[c] \in {"free", "refused", "closed"}
  /\ \A x \in Conns : sock[x] # "pending"
  /\ c \notin DOMAIN clients
  /\ ~(dpc.pc # "idle" /\ dpc.conn = c)
  /\ \A i \in DOMAIN bpc.left : bpc.left[i] # c
  /\ sock' = [sock EXCEPT ![c] = "pending"]
  /\ sent' = [sent EXCEPT ![c] = NoPayload]
  /\ UNCHANGED <<clients, order, registered, lock, dpc, bpc, arb, engine>>

\* a limit test that lets one more connection in
AtLimitOver(tbl) == Cardinality(DOMAIN tbl) > MaxClients

\* len(self._clients) >= 3
AtLimit(tbl) == Cardinality(DOMAIN tbl) >= MaxClients

\* _accept: sock.accept() raised BlockingIOError (no connection is waiting
\* any more): pass
AcceptBlocks ==
  /\ dpc.pc = "idle"
  /\ \A c \in Conns : sock[c] # "pending"
  /\ UNCHANGED vars

\* _accept, at the connection limit: conn.close()
AcceptReject(c) ==
  /\ dpc.pc = "idle"
  /\ sock[c] = "pending"
  /\ AtLimit(clients)
  /\ sock' = [sock EXCEPT ![c] = "refused"]
  /\ UNCHANGED <<clients, order, registered, lock, dpc, bpc, arb, engine, sent>>

NewClientState == [mask |-> NONE, streaming |-> FALSE, buffer |-> <<>>]

\* _accept, below the limit: the new ClientState under the lock, then
\* selector.register
Accept(c) ==
  /\ dpc.pc = "idle"
  /\ sock[c] = "pending"
  /\ ~AtLimit(clients)
  /\ lock = "free"
  /\ clients' = [x \in DOMAIN clients \cup {c} |->
                   IF x = c THEN NewClientState ELSE clients[x]]
  /\ order' = Append(order, c)
  /\ sock' = [sock EXCEPT ![c] = "open"]
  /\ registered' = registered \cup {c}
  /\ UNCHANGED <<lock, dpc, bpc, arb, engine, sent>>

\* start_send and stop_send both flipping the streaming flag
AppliedToggle(st, cmd) ==
  CASE cmd.action = "config_channels" -> [st EXCEPT !.mask = NewMask(cmd.params)]
    [] cmd.action \in {"start_send", "stop_send"} -> [st EXCEPT !.streaming = ~@]
    [] OTHER -> st

\* the ClientState a command leaves in the table
Applied(st, cmd) ==
  CASE cmd.action = "config_channels" -> [st EXCEPT !.mask = NewMask(cmd.params)]
    [] cmd.action = "start_send" -> [st EXCEPT !.streaming = TRUE]
    [] cmd.action = "stop_send" -> [st EXCEPT !.streaming = FALSE]
    [] OTHER -> st

\* what _read_command and _process_command do with a line, for the
\* connection conn:
\*   "ignore" nothing (JSONDecodeError, or an action that is not known)
\*   "raise"  an exception leaves the with block of _read_command (dpc.buf
\*            then holds the line that raised it)
\*   "set"    the session is updated and _update_hardware runs
\*   "remove" _remove_client runs (disconnect)
CommandEffect(line, conn, tbl) ==
  IF JsonKind(line) = "error" THEN "ignore"
  ELSE IF JsonKind(line) = "scalar" THEN "raise"
  ELSE LET cmd == JsonLoads(line)
       IN CASE cmd.action = "config_channels" ->
                 IF ~cmd.iterable \/ conn \notin DOMAIN tbl THEN "raise" ELSE "set"
            [] cmd.action \in {"start_send", "stop_send"} ->
                 IF conn \notin DOMAIN tbl THEN "raise" ELSE "set"
            [] cmd.action = "disconnect" -> "remove"
            [] OTHER -> "ignore"

\* the selector thread after a line: the next line of the buffer, the join
\* of stop(), or the end of _read_command
Resume(c, rest) ==
  IF arb' = "join"
  THEN dpc' = [pc |-> "arb_cmd", conn |-> c, buf |-> rest] /\ lock' = "dispatch"
  ELSE IF HasLine(rest)
  THEN dpc' = [pc |-> "lines", conn |-> c, buf |-> rest] /\ lock' = "dispatch"
  ELSE dpc' = DIdle /\ lock' = "free"

\* the body of _read_command under the lock, for the buffer buf: the next
\* line is split off, parsed and handed to _process_command
ProcessCommand(c, buf, RS) ==
  IF ~HasLine(buf)
  THEN /\ clients' = [clients EXCEPT ![c].buffer = buf]
       /\ dpc' = DIdle
       /\ lock' = "free"
       /\ UNCHANGED <<order, sock, registered, arb, engine>>
  ELSE LET sp == SplitLine(buf)
           eff == CommandEffect(sp.line, c, clients)
           kept == IF c \in DOMAIN clients
                   THEN [clients EXCEPT ![c].buffer = sp.rest] ELSE clients
       IN CASE eff = "ignore" ->
                 /\ clients' = kept
                 /\ arb' = arb
                 /\ Resume(c, sp.rest)
                 /\ UNCHANGED <<order, sock, registered, engine>>
            [] eff = "raise" ->
                 /\ clients' = kept
                 /\ lock' = "free"
                 /\ dpc' = [pc |-> "remove", conn |-> c, buf |-> sp.line]
                 /\ UNCHANGED <<order, sock, registered, arb, engine>>
            [] eff = "set" ->
                 /\ clients' = [kept EXCEPT ![c] = Applied(@, JsonLoads(sp.line))]
                 /\ UpdateHardware(clients', RS)
                 /\ Resume(c, sp.rest)
                 /\ UNCHANGED <<order, sock, registered>>
            [] eff = "remove" ->
                 /\ clients' = Without(clients, c)
                 /\ order' = OrderWithout(order, c)
                 /\ registered' = registered \ {c}
                 /\ sock' = IF c \in DOMAIN clients
                            THEN [sock EXCEPT ![c] = "closed"] ELSE sock
                 /\ UpdateHardware(clients', RS)
                 /\ Resume(c, sp.rest)

\* _read_command: recv returned data; state["buffer"] += data under the
\* lock, and the first line, if there is one
ReadData(c, data, RS) ==
  /\ dpc.pc = "idle"
  /\ c \in registered
  /\ lock = "free"
  /\ ProcessCommand(c, clients[c].buffer \o data, RS)
  /\ UNCHANGED <<bpc, sent>>

\* the while loop of _read_command: a further line of the same read
Line(RS) ==
  /\ dpc.pc = "lines"
  /\ ProcessCommand(dpc.conn, dpc.buf, RS)
  /\ UNCHANGED <<bpc, sent>>

\* a removal that leaves the socket registered and open
RemoveClientLeaky(c) ==
  /\ clients' = Without(clients, c)
  /\ order' = OrderWithout(order, c)
  /\ UNCHANGED <<registered, sock>>

\* the with block of _remove_client: unregister, close, del
RemoveClient(c) ==
  /\ clients' = Without(clients, c)
  /\ order' = OrderWithout(order, c)
  /\ registered' = registered \ {c}
  /\ sock' = IF c \in DOMAIN clients THEN [sock EXCEPT ![c] = "closed"] ELSE sock

\* _read_command: recv returned b"" (the peer closed): _remove_client, up
\* to the end of its with block
ReadEOF(c) ==
  /\ dpc.pc = "idle"
  /\ c \in registered
  /\ lock = "free"
  /\ RemoveClient(c)
  /\ dpc' = [pc |-> "gap", conn |-> c, buf |-> <<>>]
  /\ UNCHANGED <<lock, bpc, arb, engine, sent>>

\* _read_command: recv raised ConnectionResetError, BrokenPipeError or
\* ConnectionAbortedError: _remove_client, up to the end of its with block
ReadReset(c) ==
  /\ dpc.pc = "idle"
  /\ c \in registered
  /\ lock = "free"
  /\ RemoveClient(c)
  /\ dpc' = [pc |-> "gap", conn |-> c, buf |-> <<>>]
  /\ UNCHANGED <<lock, bpc, arb, engine, sent>>

\* _read_command: recv raised BlockingIOError (the socket is non-blocking
\* and has nothing to read); it is none of the three exceptions of the first
\* except clause, so except Exception takes it: _remove_client, up to the
\* end of its with block
ReadBlocks(c) ==
  /\ dpc.pc = "idle"
  /\ c \in registered
  /\ lock = "free"
  /\ RemoveClient(c)
  /\ dpc' = [pc |-> "gap", conn |-> c, buf |-> <<>>]
  /\ UNCHANGED <<lock, bpc, arb, engine, sent>>

\* whether bytes.decode('utf-8') raises UnicodeDecodeError: the data ends
\* inside a character or starts inside one
Undecodable(data) ==
  data # <<>> /\ (data[Len(data)] = Lead \/ data[1] = Cont)

\* _read_command: recv returned data that decode('utf-8') rejects; except
\* Exception takes the UnicodeDecodeError: _remove_client, up to the end of
\* its with block
ReadUndecodable(c, data) ==
  /\ dpc.pc = "idle"
  /\ c \in registered
  /\ lock = "free"
  /\ Undecodable(data)
  /\ RemoveClient(c)
  /\ dpc' = [pc |-> "gap", conn |-> c, buf |-> <<>>]
  /\ UNCHANGED <<lock, bpc, arb, engine, sent>>

\* an exception that no except clause takes: it leaves run()
RaisedEscapes ==
  /\ dpc.pc = "remove"
  /\ lock = "free"
  /\ dpc' = [pc |-> "stopped", conn |-> 0, buf |-> <<>>]
  /\ UNCHANGED <<clients, order, sock, registered, lock, bpc, arb, engine, sent>>

\* _read_command, except Exception: _remove_client, up to the end of its
\* with block
RaisedRemove ==
  /\ dpc.pc = "remove"
  /\ lock = "free"
  /\ RemoveClient(dpc.conn)
  /\ dpc' = [pc |-> "gap", conn |-> dpc.conn, buf |-> <<>>]
  /\ UNCHANGED <<lock, bpc, arb, engine, sent>>

\* _remove_client called by _read_command: the lock is taken again for
\* _update_hardware
RemoveArbitrate(RS) ==
  /\ dpc.pc = "gap"
  /\ lock = "free"
  /\ UpdateHardware(clients, RS)
  /\ IF arb' = "join"
     THEN dpc' = [dpc EXCEPT !.pc = "arb_rm"] /\ lock' = "dispatch"
     ELSE dpc' = DIdle /\ lock' = "free"
  /\ UNCHANGED <<clients, order, sock, registered, bpc, sent>>

\* a join that never returns into _update_hardware
JoinedNever ==
  UNCHANGED <<arb, lock, dpc, bpc>>

\* stop() returns into _update_hardware, which returns to its caller: the
\* while loop of _read_command, the end of _remove_client, or the for loop
\* of _broadcast_loop
Joined ==
  /\ arb' = "none"
  /\ IF lock = "dispatch"
     THEN /\ bpc' = bpc
          /\ IF dpc.pc = "arb_cmd" /\ HasLine(dpc.buf)
             THEN dpc' = [dpc EXCEPT !.pc = "lines"] /\ lock' = lock
             ELSE dpc' = DIdle /\ lock' = "free"
     ELSE /\ dpc' = dpc
          /\ lock' = lock
          /\ bpc' = [bpc EXCEPT !.pc = "loop"]

\* self._thread.join(1.0) returns because the reader thread has ended
JoinReturns ==
  /\ arb = "join"
  /\ rpc[mpu.thread] = "dead"
  /\ Joined
  /\ UNCHANGED <<clients, order, sock, registered, engine, sent>>

\* self._thread.join(1.0) returns after the timeout, the reader thread still
\* blocked in dev.read (not when that would leave no thread for the next
\* start())
JoinTimeout(RS) ==
  /\ arb = "join"
  /\ rpc[mpu.thread] = "read"
  /\ Cardinality(Alive(RS)) < Cardinality(RS)
  /\ Joined
  /\ UNCHANGED <<clients, order, sock, registered, engine, sent>>

(***************************************************************************)
(* The broadcast thread: _broadcast_loop.                                  *)
(***************************************************************************)
\* data = q.get(timeout=0.5)
BroadcastGet ==
  /\ bpc.pc = "wait"
  /\ queue # <<>>
  /\ bpc' = [pc |-> "got", data |-> Head(queue), left |-> <<>>]
  /\ queue' = Tail(queue)
  /\ UNCHANGED <<clients, order, sock, registered, lock, dpc, arb, mpu, dev,
                 index_attr, rpc, rloc, produced, sent>>

\* the names the comprehension of _broadcast_loop keeps for the mask m
MaskNames(m) ==
  {LowerTable[f] : f \in {g \in Atomic : (m \cap {g}) # NONE /\ PopCount({g}) = 1}}

\* a payload that is not filtered
Unfiltered(data, m) == data.fields

\* filtered: the fields of data the session's mask selects
Filtered(data, m) == {k \in data.fields : k \in MaskNames(m)}

\* whether the for loop calls sendall for the session st
Sends(data, st) == st.streaming /\ Filtered(data, st.mask) # {}

\* the sessions the for loop has still to visit
BroadcastLeft == IF bpc.pc = "got" THEN order ELSE bpc.left

\* the sockets after the for loop has visited the sessions cs and written
\* to those it sends to
SentAfter(cs) ==
  [c \in Conns |->
     IF c \in cs /\ Sends(bpc.data, clients[c])
     THEN [seq |-> bpc.data.seq, fields |-> Filtered(bpc.data, clients[c].mask)]
     ELSE sent[c]]

\* self._is_running: True from run() until stop() (which the selector thread
\* runs) has cleared it
IsRunning == dpc.pc \notin {"stop_join", "stopped"}

\* the broadcast thread after a pass: q.get again, or the end of
\* _broadcast_loop when the test of its while fails
BNext == IF IsRunning THEN BWait ELSE [BWait EXCEPT !.pc = "exit"]

\* with self._clients_lock: the for loop over list(self._clients.items()),
\* every sendall succeeding, to the end of the with block, q.task_done() and
\* the test of the while
BroadcastLoop ==
  /\ \/ bpc.pc = "got" /\ lock = "free"
     \/ bpc.pc = "loop"
  /\ sent' = SentAfter(Range(BroadcastLeft))
  /\ lock' = "free"
  /\ bpc' = BNext
  /\ UNCHANGED <<clients, order, sock, registered, dpc, arb, engine>>

\* the for loop up to the k-th session left, whose sendall raises OSError:
\* _remove_client and _update_hardware, up to the join of stop()
BroadcastSendFails(k, RS) ==
  /\ \/ bpc.pc = "got" /\ lock = "free"
     \/ bpc.pc = "loop"
  /\ k \in DOMAIN BroadcastLeft
  /\ Sends(bpc.data, clients[BroadcastLeft[k]])
  /\ sent' = SentAfter({BroadcastLeft[i] : i \in 1..(k - 1)})
  /\ RemoveClient(BroadcastLeft[k])
  /\ UpdateHardware(clients', RS)
  /\ lock' = "broadcast"
  /\ bpc' = [bpc EXCEPT !.pc = IF arb' = "join" THEN "arb" ELSE "loop",
                        !.left = SubSeq(BroadcastLeft, k + 1, Len(BroadcastLeft))]
  /\ dpc' = dpc

\* the for loop up to the k-th session left, whose sendall raises
\* BlockingIOError (the non-blocking socket's send buffer is full): it is an
\* OSError, so the except clause takes it as it takes a failed write
BroadcastSendBlocks(k, RS) == BroadcastSendFails(k, RS)

\* q.get(timeout=0.5) raises queue.Empty after stop(): continue, and the
\* test of the while ends _broadcast_loop
BroadcastExit ==
  /\ bpc.pc = "wait"
  /\ ~IsRunning
  /\ queue = <<>>
  /\ bpc' = [bpc EXCEPT !.pc = "exit"]
  /\ UNCHANGED <<clients, order, sock, registered, lock, dpc, arb, engine, sent>>

(***************************************************************************)
(* MPUSocketServerNonBlocking.stop(), run by the selector thread when      *)
(* select is interrupted (KeyboardInterrupt in run(), or the signal        *)
(* handler).  It takes no lock.                                            *)
(***************************************************************************)
\* self._is_running = False and self._mpu.stop() up to its join; dpc.conn
\* holds the thread stop() joins
ServerStop ==
  /\ dpc.pc = "idle"
  /\ mpu' = [mpu EXCEPT !.running = FALSE]
  /\ dpc' = [pc |-> "stop_join", conn |-> mpu.thread, buf |-> <<>>]
  /\ UNCHANGED <<clients, order, sock, registered, lock, bpc, arb, dev,
                 index_attr, queue, rpc, rloc, produced, sent>>

\* the join of stop() returns (there was no thread, the thread has ended, or
\* the timeout passed with the thread blocked in dev.read); then
\* self._selector.close() and self._server_sock.close()
ServerStopped ==
  /\ dpc.pc = "stop_join"
  /\ IF dpc.conn = 0 THEN TRUE ELSE rpc[dpc.conn] \in {"dead", "read"}
  /\ dpc' = [pc |-> "stopped", conn |-> 0, buf |-> <<>>]
  /\ UNCHANGED <<clients, order, sock, registered, lock, bpc, arb, engine, sent>>

(***************************************************************************)
(* A reader thread: MPU9250Buffer._reader_loop.                            *)
(***************************************************************************)
\* the finally clause: _set_buffer_enable(0), and the thread ends
ReaderEnds(r) ==
  /\ dev' = [dev EXCEPT !.buffer_enable = 0]
  /\ rpc' = [rpc EXCEPT ![r] = "dead"]
  /\ rloc' = [rloc EXCEPT ![r] = NoLocals]

\* open(self._char_dev_path), self._set_buffer_enable(1)
ReaderOpen(r) ==
  /\ rpc[r] = "start"
  /\ dev' = [dev EXCEPT !.buffer_enable = 1]
  /\ rpc' = [rpc EXCEPT ![r] = "loop"]
  /\ UNCHANGED <<clients, order, sock, registered, lock, dpc, bpc, arb, mpu,
                 index_attr, queue, rloc, produced, sent>>

\* while self._running: the test
ReaderTest(r) ==
  /\ rpc[r] = "loop"
  /\ IF mpu.running
     THEN rpc' = [rpc EXCEPT ![r] = "read"] /\ UNCHANGED <<dev, rloc>>
     ELSE ReaderEnds(r)
  /\ UNCHANGED <<clients, order, sock, registered, lock, dpc, bpc, arb, mpu,
                 index_attr, queue, produced, sent>>

\* raw_bytes = dev.read(self._packet_size): one packet of the enabled buffer,
\* at most limit packets in a run
ReaderRead(r, limit) ==
  /\ rpc[r] = "read"
  /\ dev.buffer_enable = 1
  /\ produced < limit
  /\ produced' = produced + 1
  /\ rloc' = [rloc EXCEPT ![r] = [seq |-> produced + 1, size |-> mpu.packet_size,
                                 fields |-> {}]]
  /\ rpc' = [rpc EXCEPT ![r] = "unpack"]
  /\ UNCHANGED <<clients, order, sock, registered, lock, dpc, bpc, arb, mpu,
                 dev, index_attr, queue, sent>>

\* if len(raw_bytes) < self._packet_size: continue; then
\* struct.unpack(self._packet_format, raw_bytes) and the loop over
\* self._active_configs: struct.error when the sizes differ, IndexError when
\* there are more ChannelMeta than values
ReaderUnpack(r) ==
  /\ rpc[r] = "unpack"
  /\ IF rloc[r].size < mpu.packet_size
     THEN /\ rpc' = [rpc EXCEPT ![r] = "loop"]
          /\ rloc' = [rloc EXCEPT ![r] = NoLocals]
          /\ dev' = dev
     ELSE IF CalcSize(mpu.packet_format) # rloc[r].size
             \/ Len(mpu.active_configs) > mpu.packet_format
     THEN ReaderEnds(r)
     ELSE /\ rloc' = [rloc EXCEPT ![r].fields =
                        {mpu.active_configs[i].name : i \in DOMAIN mpu.active_configs}]
          /\ rpc' = [rpc EXCEPT ![r] = "put"]
          /\ dev' = dev
  /\ UNCHANGED <<clients, order, sock, registered, lock, dpc, bpc, arb, mpu,
                 index_attr, queue, produced, sent>>

\* the sample a reader thread holds in data
Sample(r) == [seq |-> rloc[r].seq, fields |-> rloc[r].fields]

\* a queue that takes one entry more
FullOver(q) == Len(q) > QSize

\* whether Queue.put_nowait raises queue.Full
Full(q) == Len(q) >= QSize

\* self._data_queue.put_nowait(data), in the try
ReaderPut(r) ==
  /\ rpc[r] = "put"
  /\ IF ~Full(queue)
     THEN /\ queue' = Append(queue, Sample(r))
          /\ rpc' = [rpc EXCEPT ![r] = "loop"]
          /\ rloc' = [rloc EXCEPT ![r] = NoLocals]
     ELSE /\ rpc' = [rpc EXCEPT ![r] = "full"]
          /\ UNCHANGED <<queue, rloc>>
  /\ UNCHANGED <<clients, order, sock, registered, lock, dpc, bpc, arb, mpu,
                 dev, index_attr, produced, sent>>

\* except queue.Full: self._data_queue.get_nowait(); queue.Empty is passed
\* over and the sample is dropped
ReaderEvict(r) ==
  /\ rpc[r] = "full"
  /\ IF queue = <<>>
     THEN /\ rpc' = [rpc EXCEPT ![r] = "loop"]
          /\ rloc' = [rloc EXCEPT ![r] = NoLocals]
          /\ queue' = queue
     ELSE /\ queue' = Tail(queue)
          /\ rpc' = [rpc EXCEPT ![r] = "reput"]
          /\ rloc' = rloc
  /\ UNCHANGED <<clients, order, sock, registered, lock, dpc, bpc, arb, mpu,
                 dev, index_attr, produced, sent>>

\* except queue.Full: self._data_queue.put_nowait(data) after the get; a
\* second queue.Full is not caught and ends the thread
ReaderReput(r) ==
  /\ rpc[r] = "reput"
  /\ IF ~Full(queue)
     THEN /\ queue' = Append(queue, Sample(r))
          /\ rpc' = [rpc EXCEPT ![r] = "loop"]
          /\ rloc' = [rloc EXCEPT ![r] = NoLocals]
          /\ dev' = dev
     ELSE /\ ReaderEnds(r)
          /\ queue' = queue
  /\ UNCHANGED <<clients, order, sock, registered, lock, dpc, bpc, arb, mpu,
                 index_attr, produced, sent>>

(***************************************************************************)
(* The three threads, for the connections CS, recv returning one of DS,    *)
(* the reader threads RS and a device that delivers NS packets.            *)
(***************************************************************************)
Text(fragment) == <<fragment, Close, NL>>

\* a device that has no index file for accel_x
NoAccelXIndex == [FullIndex EXCEPT !["accel_x"] = NoFile]

\* run(): the selector calls _accept or _read_command
Dispatch(CS, DS, RS) ==
  \/ \E c \in CS : Connect(c)
  \/ \E c \in CS : Accept(c)
  \/ \E c \in CS, data \in DS : ReadData(c, data, RS)
  \/ \E c \in CS : ReadEOF(c)
  \/ \E c \in CS : ReadReset(c)
  \/ RemoveArbitrate(RS)
  \/ JoinReturns

\* _broadcast_loop
Broadcast(RS) ==
  \/ BroadcastGet
  \/ BroadcastLoop
  \/ \E k \in 1..MaxClients : BroadcastSendFails(k, RS)

\* _reader_loop, put_nowait not raising
Reader(NS, RS) ==
  \/ \E r \in RS : ReaderOpen(r)
  \/ \E r \in RS : ReaderTest(r)
  \/ \E r \in RS : ReaderRead(r, NS)
  \/ \E r \in RS : ReaderUnpack(r)
  \/ \E r \in RS : ReaderPut(r)

\* _reader_loop, except queue.Full
ReaderOverflow(RS) ==
  \/ \E r \in RS : ReaderEvict(r)
  \/ \E r \in RS : ReaderReput(r)

(***************************************************************************)
(* Spec: NumClients clients configure, start, stop, disconnect and fail,   *)
(* on a device with every index file or on one without accel_x's.  The     *)
(* device delivers QSize packets, so the queue does not overflow, and      *)
(* stop() waits until the reader thread has ended.                         *)
(***************************************************************************)
Inputs ==
  {Text("{start_send"), Text("{stop_send"), Text("{cfg[ACCEL_X]"),
   Text("{cfg[gyro_x]"), Text("{disconnect")}

Devices == {FullIndex, NoAccelXIndex}

Init == InitOn(Devices)

Next ==
  \/ Dispatch(1..NumClients, Inputs, {1})
  \/ Broadcast({1})
  \/ Reader(QSize, {1})

Spec == Init /\ [][Next]_vars

(***************************************************************************)
(* SpecQueue: one client, a device that delivers QSize + 1 packets, and    *)
(* stop() returning after its timeout with the reader thread still alive.  *)
(***************************************************************************)
QueueInputs ==
  {Text("{start_send"), Text("{stop_send"), Text("{cfg[ACCEL_X]")}

InitQueue == InitOn({FullIndex})

NextQueue ==
  \/ Dispatch({1}, QueueInputs, Readers)
  \/ JoinTimeout(Readers)
  \/ Broadcast(Readers)
  \/ Reader(QSize + 1, Readers)
  \/ ReaderOverflow(Readers)

SpecQueue == InitQueue /\ [][NextQueue]_vars

(***************************************************************************)
(* SpecLimit: MaxConns clients, one more than the connection limit, that  *)
(* configure channels and close; no client starts a stream.                *)
(***************************************************************************)
LimitInputs == {Text("{cfg[ACCEL_X]"), Text("{cfg[gyro_x]")}

NextLimit ==
  \/ \E c \in Conns : Connect(c)
  \/ \E c \in Conns : Accept(c)
  \/ \E c \in Conns : AcceptReject(c)
  \/ \E c \in Conns, data \in LimitInputs : ReadData(c, data, {1})
  \/ \E c \in Conns : ReadEOF(c)
  \/ RemoveArbitrate({1})

SpecLimit == InitQueue /\ [][NextLimit]_vars

(***************************************************************************)
(* SpecProtocol: the lines a client may send, well formed or not, one or   *)
(* two to a read, and a line that arrives in two reads.                    *)
(***************************************************************************)
\* complete lines that are no well-formed command
Malformed ==
  {<<"{start_send", NL>>, <<Scalar, NL>>, Text("{cfg:5"), Text("{cfg[7]"),
   Text("{reboot"), Text("{cfg[bogus]")}

ProtocolInputs ==
  Malformed \cup
  {Text("{start_send"), Text("{cfg[ACCEL_X]"),
   Text("{cfg[ACCEL_X]") \o Text("{start_send"), <<Close, NL>>}

\* the first read of a line that arrives in two
ReadPartial(c, RS) ==
  /\ c \in DOMAIN clients
  /\ clients[c].buffer = <<>>
  /\ ReadData(c, <<"{start_send">>, RS)

NextProtocol ==
  \/ Dispatch(1..NumClients, ProtocolInputs, {1})
  \/ \E c \in 1..NumClients : ReadPartial(c, {1})
  \/ Line({1})
  \/ RaisedRemove
  \/ Broadcast({1})
  \/ Reader(QSize, {1})

SpecProtocol == InitQueue /\ [][NextProtocol]_vars

(***************************************************************************)
(* Properties.                                                             *)
(***************************************************************************)
\* no command, accept or removal is being processed and the lock is free
Quiescent == dpc.pc = "idle" /\ lock = "free"

\* the names of the engine's active ChannelMeta
ActiveNames == {mpu.active_configs[i].name : i \in DOMAIN mpu.active_configs}

\* the OR of the masks of the sessions in the table
MaskOr == UNION {clients[c].mask : c \in DOMAIN clients}

\* the field names of the channels of a mask
NamesOf(m) == {LowerTable[f] : f \in m}

\* the reader thread start() created last has not ended
ReaderAlive == mpu.thread # 0 /\ rpc[mpu.thread] # "dead"

(***************************************************************************)
(* C1.  Whenever no command, accept or removal is being processed and the  *)
(* lock is free, on a device that has every index file, and the OR of the  *)
(* session masks is not empty, the channels of the engine's active         *)
(* ChannelMeta are exactly the channels of that OR.                        *)
(***************************************************************************)
C1_ActiveIsUnion ==
  (Quiescent /\ index_attr = FullIndex /\ MaskOr # NONE)
    => ActiveNames = NamesOf(MaskOr)

\* two sessions with different masks, the engine configured with both
C1_Witness ==
  /\ Quiescent
  /\ index_attr = FullIndex
  /\ \E c, d \in DOMAIN clients :
       /\ clients[c].mask = {"ACCEL_X"}
       /\ clients[d].mask = {"GYRO_X"}
  /\ ActiveNames = {"accel_x", "gyro_x"}

\* C1 as the specification states it: the same, also when the OR is empty
C1_AsStated ==
  (Quiescent /\ index_attr = FullIndex) => ActiveNames = NamesOf(MaskOr)

(***************************************************************************)
(* C2.  Every payload the broadcast loop writes to a connection goes to a  *)
(* session that is streaming, is not empty, and holds exactly the fields   *)
(* of the sample being broadcast whose channel is in the session's mask at *)
(* the time of the write; a session that is not streaming, or whose mask   *)
(* has no field of the sample, is written nothing.                         *)
(***************************************************************************)
C2_Payload ==
  [][\A c \in Conns :
       /\ (sent'[c] # sent[c] /\ sent'[c] # NoPayload) =>
            /\ c \in DOMAIN clients
            /\ clients[c].streaming
            /\ sent'[c].fields # {}
            /\ sent'[c].fields = bpc.data.fields \cap NamesOf(clients[c].mask)
            /\ sent'[c].seq = bpc.data.seq
       /\ (/\ c \in DOMAIN clients
           /\ \/ ~clients[c].streaming
              \/ bpc.data.fields \cap NamesOf(clients[c].mask) = {}) =>
            sent'[c] = sent[c]]_vars

\* one sample of two fields, each of two sessions written its own field
C2_Witness ==
  \E c, d \in DOMAIN clients :
    /\ sent[c].seq # 0
    /\ sent[c].seq = sent[d].seq
    /\ sent[c].fields = {"accel_x"}
    /\ sent[d].fields = {"gyro_x"}

C4_StreamingRuns ==
  (Quiescent /\ index_attr = FullIndex) =>
    \A c \in DOMAIN clients :
      (clients[c].streaming /\ clients[c].mask # NONE) =>
        /\ mpu.running
        /\ NamesOf(clients[c].mask) \subseteq ActiveNames
        /\ ReaderAlive

\* a session that is streaming and configured has been sent a sample
C4_Witness ==
  \E c \in DOMAIN clients :
    /\ clients[c].streaming
    /\ clients[c].mask # NONE
    /\ sent[c].seq # 0

(***************************************************************************)
(* C5.  The table never holds more than MaxClients sessions.  _accept,     *)
(* for a connection taken from the backlog while MaxClients sessions       *)
(* exist, closes it and changes neither the table, the selector nor the    *)
(* engine; otherwise it opens it, registers it and adds a session with an  *)
(* empty mask, streaming false and an empty buffer, the other sessions     *)
(* unchanged.                                                              *)
(***************************************************************************)
C5_Limit ==
  [][/\ Cardinality(DOMAIN clients') <= MaxClients
     /\ \A c \in Conns :
          (sock[c] = "pending" /\ sock'[c] # "pending") =>
            IF Cardinality(DOMAIN clients) >= MaxClients
            THEN /\ sock'[c] = "refused"
                 /\ UNCHANGED <<clients, order, registered, mpu, dev, queue>>
            ELSE /\ sock'[c] = "open"
                 /\ DOMAIN clients' = DOMAIN clients \cup {c}
                 /\ clients'[c] = [mask |-> NONE, streaming |-> FALSE, buffer |-> <<>>]
                 /\ \A d \in DOMAIN clients : clients'[d] = clients[d]
                 /\ registered' = registered \cup {c}]_vars

\* a fourth connection has been closed while three configured sessions exist
C5_Witness ==
  /\ Cardinality(DOMAIN clients) = MaxClients
  /\ \E c \in Conns : sock[c] = "refused"
  /\ mpu.active_configs # <<>>

(***************************************************************************)
(* C6.  The queue never holds more than QSize samples.                     *)
(***************************************************************************)
C6_Bounded == Len(queue) <= QSize

\* the queue is full after an overflow: the oldest sample has been evicted
C6_Witness ==
  /\ Len(queue) = QSize
  /\ produced > QSize
  /\ queue[1].seq > 1

(***************************************************************************)
(* C7.  When a reader thread's push completes (it goes back to the test    *)
(* of its loop), the sample it produced is in the queue.                   *)
(***************************************************************************)
C7_NewestKept ==
  [][\A r \in Readers :
       (rpc[r] \in {"put", "full", "reput"} /\ rpc'[r] = "loop") =>
         \E i \in DOMAIN queue' : queue'[i] = Sample(r)]_vars

\* a reader thread has evicted the oldest sample and is about to push its own
C7_Witness == \E r \in Readers : rpc[r] = "reput" /\ Len(queue) = QSize - 1

(***************************************************************************)
(* C8.  The samples written to a connection are written in the order the   *)
(* device delivered them: each payload's sample is later than the sample   *)
(* of the payload written before it.                                       *)
(***************************************************************************)
C8_InOrder ==
  [][\A c \in Conns :
       (sent[c] # NoPayload /\ sent'[c] # NoPayload /\ sent'[c] # sent[c]) =>
         sent'[c].seq > sent[c].seq]_vars

\* a connection has been written a second sample
C8_Witness == \E c \in Conns : sent[c].seq > 1

(***************************************************************************)
(* C9.  When the processing of a complete line that is no well-formed      *)
(* command has raised in _read_command, the handler leaves the session in  *)
(* the table and its socket open.                                          *)
(***************************************************************************)
C9_Tolerated ==
  [][(/\ dpc.pc = "remove"
      /\ dpc'.pc # "remove"
      /\ (dpc.buf \o <<NL>>) \in Malformed
      /\ dpc.conn \in DOMAIN clients) =>
       (dpc.conn \in DOMAIN clients' /\ sock'[dpc.conn] = "open")]_vars

\* the processing of a malformed line of a streaming, configured session has
\* raised, and the session is in the table
C9_Witness ==
  /\ dpc.pc = "remove"
  /\ (dpc.buf \o <<NL>>) \in Malformed
  /\ dpc.conn \in DOMAIN clients
  /\ clients[dpc.conn].streaming
  /\ clients[dpc.conn].mask # NONE

(***************************************************************************)
(* C10.  A step that removes a session leaves every other session in the  *)
(* table with its mask, streaming flag and buffer, closes the removed      *)
(* session's socket, and has arbitrated or leaves the selector thread      *)
(* about to.  When a pass of the broadcast loop ends, every session in the *)
(* table that is streaming and whose mask has a field of the sample has    *)
(* been written the sample.                                                *)
(***************************************************************************)
C10_Fault ==
  [][/\ \A c \in DOMAIN clients :
          c \notin DOMAIN clients' =>
            /\ \A d \in DOMAIN clients \ {c} :
                 d \in DOMAIN clients' /\ clients'[d] = clients[d]
            /\ sock'[c] = "closed"
            /\ \/ dpc'.pc = "gap"
               \/ ~AnyStreaming(clients') => ~mpu'.running
     /\ (bpc.pc \in {"got", "loop"} /\ bpc'.pc = "wait") =>
          \A d \in DOMAIN clients' :
            (/\ clients'[d].streaming
             /\ bpc.data.fields \cap NamesOf(clients'[d].mask) # {}) =>
              sent'[d].seq = bpc.data.seq]_vars

\* a write to one session has failed and the session is removed; the pass
\* goes on with a streaming session that is owed the sample
C10_Witness ==
  /\ lock = "broadcast"
  /\ bpc.pc = "loop"
  /\ bpc.left # <<>>
  /\ \E d \in DOMAIN clients :
       /\ d = bpc.left[1]
       /\ clients[d].streaming
       /\ bpc.data.fields \cap NamesOf(clients[d].mask) # {}
       /\ sent[d].seq # bpc.data.seq

(***************************************************************************)
(* SpecBlock: NumClients clients configure and start; the only faults are  *)
(* would-block conditions of the non-blocking sockets.                     *)
(***************************************************************************)
BlockInputs == {Text("{start_send"), Text("{cfg[ACCEL_X]")}

NextBlock ==
  \/ \E c \in 1..NumClients : Connect(c)
  \/ \E c \in 1..NumClients : Accept(c)
  \/ AcceptBlocks
  \/ \E c \in 1..NumClients, data \in BlockInputs : ReadData(c, data, {1})
  \/ \E c \in 1..NumClients : ReadBlocks(c)
  \/ RemoveArbitrate({1})
  \/ JoinReturns
  \/ BroadcastGet
  \/ BroadcastLoop
  \/ \E k \in 1..MaxClients : BroadcastSendBlocks(k, {1})
  \/ Reader(QSize, {1})

SpecBlock == InitQueue /\ [][NextBlock]_vars

(***************************************************************************)
(* C11.  A step in which recv or sendall on a session's socket would block *)
(* leaves the session in the table with its mask and streaming flag, and   *)
(* leaves the engine's _running flag and active ChannelMeta as they were;  *)
(* a step in which accept would block changes nothing.                     *)
(***************************************************************************)
C11_WouldBlockIgnored ==
  [][/\ \A c \in DOMAIN clients :
          (\/ ReadBlocks(c)
           \/ \E k \in DOMAIN BroadcastLeft :
                BroadcastLeft[k] = c /\ BroadcastSendBlocks(k, {1})) =>
            /\ c \in DOMAIN clients'
            /\ clients'[c].mask = clients[c].mask
            /\ clients'[c].streaming = clients[c].streaming
            /\ mpu'.running = mpu.running
            /\ mpu'.active_configs = mpu.active_configs
     /\ AcceptBlocks => UNCHANGED <<clients, registered, mpu>>]_vars

\* the broadcast loop is about to write a sample to a streaming session
C11_Witness ==
  /\ bpc.pc = "got"
  /\ lock = "free"
  /\ \E c \in DOMAIN clients : Sends(bpc.data, clients[c])

C13_DisabledAfterStop ==
  [][(arb = "join" /\ arb' = "none") => dev'.buffer_enable = 0]_vars

\* stop() has returned after the reader thread ended, the buffer disabled
C13_Witness ==
  /\ arb = "none"
  /\ mpu.thread # 0
  /\ ~mpu.running
  /\ rpc[mpu.thread] = "dead"
  /\ dev.buffer_enable = 0

(***************************************************************************)
(* SpecStop: NumClients clients configure and start, writes to them may    *)
(* fail, and the server is stopped.  The stop comes while a reader slot is *)
(* free, so that a start() after it finds one among the MaxReaders.        *)
(***************************************************************************)
StopInputs == {Text("{start_send"), Text("{cfg[ACCEL_X]")}

NextStop ==
  \/ \E c \in 1..NumClients : Connect(c)
  \/ \E c \in 1..NumClients : Accept(c)
  \/ \E c \in 1..NumClients, data \in StopInputs : ReadData(c, data, Readers)
  \/ (Cardinality(Alive(Readers)) < MaxReaders /\ ServerStop)
  \/ ServerStopped
  \/ JoinReturns
  \/ JoinTimeout(Readers)
  \/ Broadcast(Readers)
  \/ BroadcastExit
  \/ Reader(QSize, Readers)

SpecStop == InitQueue /\ [][NextStop]_vars

(***************************************************************************)
(* C14.  Once stop() has returned and the broadcast thread has ended (no   *)
(* thread of the server is left to change it), the engine is stopped: its  *)
(* _running flag is false.                                                 *)
(***************************************************************************)
C14_StoppedStays ==
  (dpc.pc = "stopped" /\ bpc.pc = "exit") => ~mpu.running

\* the server has been stopped while the engine ran and both its threads
\* have ended, the reader thread too
C14_Witness ==
  /\ dpc.pc = "stopped"
  /\ bpc.pc = "exit"
  /\ mpu.thread # 0
  /\ ~mpu.running
  /\ \A r \in Readers : rpc[r] = "dead"

(***************************************************************************)
(* SpecTwice: NumClients clients send their commands once, or twice in one *)
(* read, so that the second line of a read repeats the command before it.  *)
(***************************************************************************)
Commands == {"{start_send", "{stop_send", "{cfg[ACCEL_X]", "{cfg[gyro_x]", "{cfg"}

TwiceInputs ==
  {Text(f) : f \in Commands} \cup {Text(f) \o Text(f) : f \in Commands}

NextTwice ==
  \/ \E c \in 1..NumClients : Connect(c)
  \/ \E c \in 1..NumClients : Accept(c)
  \/ \E c \in 1..NumClients, data \in TwiceInputs : ReadData(c, data, {1})
  \/ Line({1})
  \/ JoinReturns
  \/ BroadcastGet
  \/ BroadcastLoop
  \/ Reader(QSize, {1})

SpecTwice == Init /\ [][NextTwice]_vars

(***************************************************************************)
(* C15.  Arbitration is idempotent on session state: the second of two     *)
(* equal commands issued in a row (config_channels, start_send, stop_send) *)
(* leaves every session's mask and streaming flag, the union mask, the     *)
(* engine's _running flag and its active channel set as the first left     *)
(* them.                                                                   *)
(***************************************************************************)
C15_Idempotent ==
  [][Line({1}) =>
       /\ DOMAIN clients' = DOMAIN clients
       /\ \A c \in DOMAIN clients :
            /\ clients'[c].mask = clients[c].mask
            /\ clients'[c].streaming = clients[c].streaming
       /\ MaskOr' = MaskOr
       /\ mpu'.running = mpu.running
       /\ mpu'.active_configs = mpu.active_configs]_vars

\* the repeated command is being read: a start_send that started the
\* engine, a stop_send that stopped it, a config_channels that narrowed
\* the active set
C15_Witness ==
  /\ dpc.pc = "lines"
  /\ dpc.buf \in {Text(f) : f \in Commands}
  /\ mpu.active_configs # <<>>
  /\ mpu.thread # 0

(***************************************************************************)
(* SpecConfig: config_channels as a function.  The engine alone (as in the *)
(* __main__ of mpu_buffer.py), on devices that number their channels in    *)
(* different orders or lack index files, is configured with one selection  *)
(* after the other.                                                        *)
(***************************************************************************)
\* devices whose index files number the channels in the reverse order and
\* in a rotated order, and one without the index files of the gyroscope
ReversedIndex == [b \in SysfsNames |-> 8 - FullIndex[b]]

RotatedIndex == [b \in SysfsNames |-> (FullIndex[b] + 4) % 9]

NoGyroIndex ==
  [b \in SysfsNames |->
     IF b \in {"anglvel_x", "anglvel_y", "anglvel_z"} THEN NoFile
     ELSE FullIndex[b]]

ConfigDevices ==
  {FullIndex, NoAccelXIndex, NoGyroIndex, ReversedIndex, RotatedIndex}

\* the selections: every member of MPUChannel and every | of two of them
ConfigMasks == {MPUChannel(a) \cup MPUChannel(b) : a, b \in MemberNames}

\* config_channels(selection) called on the engine
ConfigChannels(selection) ==
  /\ mpu' = ConfigMpu(mpu, selection, index_attr)
  /\ dev' = ConfigDev(mpu, selection)
  /\ UNCHANGED <<clients, order, sock, registered, lock, dpc, bpc, arb,
                 index_attr, queue, rpc, rloc, produced, sent>>

InitConfig == InitOn(ConfigDevices)

NextConfig == \E selection \in ConfigMasks : ConfigChannels(selection)

SpecConfig == InitConfig /\ [][NextConfig]_vars

\* the selection whose enable bits the device holds is M
Enabled(M) ==
  \A f \in Atomic : dev.scan_en[SysfsBaseName(f)] = 1 <=> f \in M

(***************************************************************************)
(* C16.  After config_channels(M), for every selection M (composite ones   *)
(* included), the active ChannelMeta list holds exactly the single-bit     *)
(* channels of M that have an index file, each once; each of the 9 enable  *)
(* files holds 1 iff its channel is in M; and a second config_channels(M)  *)
(* leaves the list and the packet layout as they were.                     *)
(***************************************************************************)
C16_ExactlySelected ==
  [][\A M \in ConfigMasks : ConfigChannels(M) =>
       LET active == mpu'.active_configs
           indexed == {f \in M : index_attr[SysfsBaseName(f)] # NoFile}
       IN /\ {active[i].name : i \in DOMAIN active} = {Lower(f) : f \in indexed}
          /\ Len(active) = Cardinality(indexed)
          /\ \A f \in Atomic : dev'.scan_en[SysfsBaseName(f)] = 1 <=> f \in M
          /\ Enabled(M) =>
               /\ mpu'.active_configs = mpu.active_configs
               /\ mpu'.packet_format = mpu.packet_format
               /\ mpu'.packet_size = mpu.packet_size]_vars

\* ALL has been selected on the device without the accel_x index file: eight
\* channels are active and nine are enabled
C16_Witness ==
  /\ index_attr = NoAccelXIndex
  /\ Enabled(Atomic)
  /\ Len(mpu.active_configs) = 8

(***************************************************************************)
(* C17.  After every config_channels, whatever the selection and the       *)
(* device's numbering of its channels, the active ChannelMeta list is      *)
(* sorted ascending by index and the packet size is 2 bytes times the      *)
(* length of the list.                                                     *)
(***************************************************************************)
C17_SortedAndSized ==
  /\ \A i, j \in DOMAIN mpu.active_configs :
       i < j => mpu.active_configs[i].index <= mpu.active_configs[j].index
  /\ mpu.packet_size = 2 * Len(mpu.active_configs)

\* a selection of several channels that the device numbers against the
\* enumeration order
C17_Witness ==
  /\ index_attr \in {ReversedIndex, RotatedIndex}
  /\ Len(mpu.active_configs) >= 3
  /\ \E i, j \in DOMAIN mpu.active_configs :
       i < j /\ Upper(mpu.active_configs[i].name) = AtomicOrder[9]
             /\ Upper(mpu.active_configs[j].name) = AtomicOrder[1]

(***************************************************************************)
(* SpecNarrow: NumClients clients change their subscriptions while the     *)
(* engine streams; the device delivers one packet.                         *)
(***************************************************************************)
NarrowFragments ==
  {"{cfg", "{cfg[bogus,accel_y]", "{cfg[gyro_x]", "{cfg[accel_x,GYRO_X]"}

NarrowInputs == {Text(f) : f \in NarrowFragments \cup {"{start_send"}}

NextNarrow ==
  \/ \E c \in 1..NumClients : Connect(c)
  \/ \E c \in 1..NumClients : Accept(c)
  \/ \E c \in 1..NumClients, data \in NarrowInputs : ReadData(c, data, {1})
  \/ BroadcastGet
  \/ BroadcastLoop
  \/ Reader(1, {1})

SpecNarrow == InitQueue /\ [][NextNarrow]_vars

\* the channels a client names in each config_channels command
Named ==
  [f \in NarrowFragments |->
     CASE f = "{cfg" -> {}
       [] f = "{cfg[bogus,accel_y]" -> {"ACCEL_Y"}
       [] f = "{cfg[gyro_x]" -> {"GYRO_X"}
       [] f = "{cfg[accel_x,GYRO_X]" -> {"ACCEL_X", "GYRO_X"}]

(***************************************************************************)
(* C18.  A config_channels command with params P leaves the issuing        *)
(* session's mask equal to the OR of the channel names recognised in P     *)
(* (in either case, unknown names ignored), whatever it was before; every  *)
(* other session's mask and every streaming flag are unchanged; and        *)
(* arbitration has run: when the union is not NONE the engine's active     *)
(* channels are those of the union and the queue is flushed.               *)
(***************************************************************************)
C18_MaskReplaced ==
  [][\A c \in DOMAIN clients, f \in NarrowFragments :
       ReadData(c, Text(f), {1}) =>
         /\ DOMAIN clients' = DOMAIN clients
         /\ clients'[c].mask = Named[f]
         /\ \A d \in DOMAIN clients \ {c} : clients'[d].mask = clients[d].mask
         /\ \A d \in DOMAIN clients : clients'[d].streaming = clients[d].streaming
         /\ MaskOr' # NONE =>
              /\ ActiveNames' = NamesOf(MaskOr')
              /\ queue' = <<>>]_vars

\* a client that was sent accel_x and gyro_x has narrowed its subscription
\* to GYRO_X
C18_Witness ==
  \E c \in DOMAIN clients :
    /\ sent[c].fields = {"accel_x", "gyro_x"}
    /\ clients[c].mask = {"GYRO_X"}
    /\ Quiescent

(***************************************************************************)
(* C19.  In every sample in the queue and every payload sent to a client   *)
(* a gyroscope channel's field is keyed by the device's name (anglvel_x,   *)
(* anglvel_y, anglvel_z) and not by the alias gyro_x, gyro_y, gyro_z, and  *)
(* a streaming client whose mask holds GYRO_X is sent the field anglvel_x  *)
(* of a sample that has it.                                                *)
(***************************************************************************)
GyroAliases == {"gyro_x", "gyro_y", "gyro_z"}

C19_NativeGyroKey ==
  /\ \A i \in DOMAIN queue : queue[i].fields \cap GyroAliases = {}
  /\ \A c \in Conns : sent[c].fields \cap GyroAliases = {}
  /\ \A c \in DOMAIN clients :
       (bpc.pc = "got" /\ "anglvel_x" \in bpc.data.fields
          /\ clients[c].streaming /\ "GYRO_X" \in clients[c].mask)
         => Sends(bpc.data, clients[c])

\* a client whose mask holds GYRO_X has been sent a payload
C19_Witness ==
  \E c \in DOMAIN clients :
    /\ "GYRO_X" \in clients[c].mask
    /\ clients[c].streaming
    /\ sent[c].seq # 0
    /\ sent[c].fields # {}

(***************************************************************************)
(* C20.  An arbitration whose union mask is the configuration the device   *)
(* already holds (here: after a start_send or a stop_send) leaves the      *)
(* device's channel configuration, the engine's active channels and the    *)
(* samples waiting in the queue unchanged.                                 *)
(***************************************************************************)
C20_OnlyOnChange ==
  [][\A c \in DOMAIN clients, f \in {"{start_send", "{stop_send"} :
       (ReadData(c, Text(f), {1}) /\ MaskOr # NONE /\ Enabled(MaskOr)
          /\ ActiveNames = NamesOf(MaskOr)) =>
         /\ dev'.scan_en = dev.scan_en
         /\ mpu'.active_configs = mpu.active_configs
         /\ queue' = queue]_vars

\* samples wait in the queue, the device holds the configuration of the
\* union mask, and a client is there to send start_send or stop_send
C20_Witness ==
  /\ Quiescent
  /\ queue # <<>>
  /\ MaskOr # NONE
  /\ Enabled(MaskOr)
  /\ ActiveNames = NamesOf(MaskOr)
  /\ registered # {}

(***************************************************************************)
(* C21.  The queue never holds a sample that was decoded under a           *)
(* configuration the arbiter has since replaced: every sample in the queue *)
(* has the fields of the engine's active channels, whatever the reader     *)
(* thread was doing when config_channels and _flush_queue ran.             *)
(***************************************************************************)
C21_NoStaleSample ==
  \A i \in DOMAIN queue : queue[i].fields = ActiveNames

\* the arbiter has reconfigured and flushed while a reader thread holds a
\* sample it decoded before and has not yet put in the queue
C21_Witness ==
  /\ queue = <<>>
  /\ \E r \in Readers : rpc[r] = "put" /\ rloc[r].fields # ActiveNames

(***************************************************************************)
(* C22.  The engine's configuration is accessed under mutual exclusion:    *)
(* _active_configs, _packet_format and _packet_size do not change while a  *)
(* reader thread is between dev.read(self._packet_size) and the decoding   *)
(* of the packet it read, so that it never decodes with a size, a format   *)
(* and a ChannelMeta list of different configurations.                     *)
(***************************************************************************)
C22_ConfigExclusive ==
  [][(\E r \in Readers : rpc[r] = "unpack") =>
       /\ mpu'.active_configs = mpu.active_configs
       /\ mpu'.packet_format = mpu.packet_format
       /\ mpu'.packet_size = mpu.packet_size]_vars

\* a reader thread is about to decode a packet it read with another packet
\* size than the engine has now
C22_Witness ==
  \E r \in Readers : rpc[r] = "unpack" /\ rloc[r].size # mpu.packet_size

(***************************************************************************)
(* SpecSplit: each client sends a stream of the two commands StreamLines,  *)
(* and recv returns it in pieces that end anywhere: inside a line, at its  *)
(* end, inside the next line, inside a character.                          *)
(***************************************************************************)
\* the last line is a start_send whose object has a note with a character
\* of two bytes
StreamLines ==
  {Text("{cfg[ACCEL_X]"), <<"{start_send", Lead, Cont, Close, NL>>}

Prefixes(l) == {SubSeq(l, 1, k) : k \in 0..Len(l)}

\* what a client has sent since the last line the server split off: part of
\* a line, or a line and part of the next
StreamPrefixes ==
  UNION {Prefixes(l) : l \in StreamLines}
    \cup {l1 \o p : l1 \in StreamLines, p \in UNION {Prefixes(l) : l \in StreamLines}}

\* what one recv may return
Pieces ==
  UNION {{SubSeq(l1 \o l2, i, j) : i \in 1..Len(l1), j \in 1..(Len(l1) + Len(l2))} :
           l1 \in StreamLines, l2 \in StreamLines} \ {<<>>}

\* _read_command with the next piece of the client's stream
ReadSplit(c, RS) ==
  \E data \in Pieces :
    /\ c \in DOMAIN clients
    /\ (clients[c].buffer \o data) \in StreamPrefixes
    /\ IF Undecodable(data) THEN ReadUndecodable(c, data) ELSE ReadData(c, data, RS)

NextSplit ==
  \/ \E c \in 1..NumClients : Connect(c)
  \/ \E c \in 1..NumClients : Accept(c)
  \/ \E c \in 1..NumClients : ReadSplit(c, {1})
  \/ Line({1})
  \/ RemoveArbitrate({1})
  \/ JoinReturns
  \/ Reader(1, {1})

SpecSplit == InitQueue /\ [][NextSplit]_vars

(***************************************************************************)
(* C23.  Command processing does not depend on how the client's stream is  *)
(* split into reads.  Delivered a line to a read, the well-formed commands *)
(* of StreamLines never remove the session, and leave the receive buffer   *)
(* empty; so, however the stream is split, no read removes the session,    *)
(* and after each read the buffer holds the bytes after the last newline:  *)
(* a part of one line, with no newline in it.                              *)
(***************************************************************************)
C23_SplitInvariant ==
  [][\A c \in DOMAIN clients :
       /\ c \in DOMAIN clients'
       /\ (dpc.pc = "idle" /\ dpc'.pc = "idle" /\ clients'[c] # clients[c]) =>
            /\ ~HasLine(clients'[c].buffer)
            /\ \E l \in StreamLines : clients'[c].buffer \in Prefixes(l)]_vars

\* a line has arrived in two reads and the command took effect: the client
\* streams, and the start of its next line waits in the buffer
C23_Witness ==
  \E c \in DOMAIN clients :
    /\ clients[c].streaming
    /\ clients[c].mask = {"ACCEL_X"}
    /\ clients[c].buffer = <<"{start_send">>
    /\ Quiescent

(***************************************************************************)
(* SpecLive: the three threads under fair scheduling.  Every thread that   *)
(* can take a step takes it in the end (WF); the broadcast thread, which   *)
(* waits for the lock after q.get, gets it if it is free again and again   *)
(* (SF); join(1.0) returns after its timeout when the reader thread is     *)
(* blocked in dev.read.  A client's data is read while a reader thread     *)
(* slot is free, which bounds the threads alive at once by MaxReaders.     *)
(***************************************************************************)
LiveInputs ==
  {Text("{cfg[ACCEL_X]"), Text("{start_send"), Text("{stop_send"),
   Text("{disconnect") \o Text("{start_send"),
   Text("{disconnect") \o Text("{disconnect") \o Text("{cfg[ACCEL_X]")}

\* self._thread.join(1.0) returns after the timeout, the reader thread
\* blocked in dev.read
JoinTimesOut ==
  /\ arb = "join"
  /\ rpc[mpu.thread] = "read"
  /\ Joined
  /\ UNCHANGED <<clients, order, sock, registered, engine, sent>>

NextLive ==
  \/ \E c \in 1..NumClients : Connect(c)
  \/ \E c \in 1..NumClients : Accept(c)
  \/ \E c \in 1..NumClients, data \in LiveInputs :
       Cardinality(Alive(Readers)) < MaxReaders /\ ReadData(c, data, Readers)
  \/ \E c \in 1..NumClients : ReadEOF(c)
  \/ Line(Readers)
  \/ RaisedRemove
  \/ RemoveArbitrate(Readers)
  \/ JoinReturns
  \/ JoinTimesOut
  \/ Broadcast(Readers)
  \/ Reader(1, Readers)

Fairness ==
  /\ WF_vars(Line(Readers))
  /\ WF_vars(RaisedRemove)
  /\ WF_vars(RemoveArbitrate(Readers))
  /\ WF_vars(JoinReturns)
  /\ WF_vars(JoinTimesOut)
  /\ SF_vars(BroadcastLoop)
  /\ \A r \in Readers :
       /\ WF_vars(ReaderOpen(r))
       /\ WF_vars(ReaderTest(r))
       /\ WF_vars(ReaderUnpack(r))
       /\ WF_vars(ReaderPut(r))

SpecLive == InitQueue /\ [][NextLive]_vars /\ Fairness

\* the thread that holds the lock is inside a with block of a handler
LockHeldInHandler ==
  /\ lock = "dispatch" => dpc.pc \in {"lines", "arb_cmd", "arb_rm"}
  /\ lock = "broadcast" => bpc.pc \in {"loop", "arb"}
  /\ (dpc.pc \in {"idle", "gap", "remove"} /\ bpc.pc \in {"wait", "got", "exit"})
       => lock = "free"

(***************************************************************************)
(* C24.  The three threads never deadlock.  The lock is held only inside a *)
(* handler and is free when none executes; whoever holds it releases it    *)
(* (the nested calls command, removal, arbitration, stop() and its join    *)
(* return to the handler that took it); the broadcast thread waiting for   *)
(* it after q.get acquires it; and a reader thread's steps do not depend   *)
(* on it: it leaves the test of its while whoever holds the lock.          *)
(***************************************************************************)
C24_NoDeadlock ==
  /\ [](LockHeldInHandler)
  /\ [](\A r \in Readers : rpc[r] = "loop" => ENABLED ReaderTest(r))
  /\ (lock # "free") ~> (lock = "free")
  /\ (bpc.pc = "got") ~> (bpc.pc # "got")
  /\ (arb = "join") ~> (arb = "none")

\* the selector thread is in the join of stop() inside the arbitration of a
\* removal inside a command of a read handler (disconnect), holding the
\* lock, while the broadcast thread waits for the lock with a sample
C24_Witness ==
  /\ lock = "dispatch"
  /\ dpc.pc = "arb_cmd"
  /\ dpc.conn \notin DOMAIN clients
  /\ arb = "join"
  /\ bpc.pc = "got"

(***************************************************************************)
(* C25.  At most one reader thread is alive at any time, whatever stop()   *)
(* and start() calls the arbiter makes, a stop() whose join timed out      *)
(* included.                                                               *)
(***************************************************************************)
C25_OneReader == Cardinality(Alive(Readers)) <= 1

\* stop() has returned after its timeout: the engine is stopped and its
\* reader thread is still blocked in dev.read
C25_Witness ==
  /\ arb = "none"
  /\ ~mpu.running
  /\ mpu.thread # 0
  /\ rpc[mpu.thread] = "read"

(***************************************************************************)
(* C26.  Whenever the engine's _running flag is true (start() is one step  *)
(* here, so none is in progress), the reader thread it started is alive:   *)
(* a reader thread that ends for another reason than stop() does not leave *)
(* the flag true.                                                          *)
(***************************************************************************)
C26_RunningHasReader == mpu.running => ReaderAlive

\* the engine runs and its reader thread is decoding a packet
C26_Witness ==
  /\ mpu.running
  /\ ReaderAlive
  /\ rpc[mpu.thread] = "unpack"

(***************************************************************************)
(* C27.  The lines that follow a disconnect in the same read have no       *)
(* effect: while the selector thread works on them (its connection is no   *)
(* longer in the table) it does not put the session back, changes no       *)
(* session's mask or streaming flag, and it returns to the selector: the   *)
(* dispatch loop keeps running.                                            *)
(***************************************************************************)
C27_AfterDisconnect ==
  /\ [][(dpc.pc \in {"lines", "remove", "gap", "arb_cmd", "arb_rm"}
          /\ dpc.conn \notin DOMAIN clients /\ dpc' # dpc) =>
         /\ DOMAIN clients' = DOMAIN clients
         /\ \A d \in DOMAIN clients :
              /\ clients'[d].mask = clients[d].mask
              /\ clients'[d].streaming = clients[d].streaming]_vars
  /\ (dpc.pc = "lines" /\ dpc.conn \notin DOMAIN clients) ~> (dpc.pc = "idle")

\* a start_send follows a disconnect in the read of a connection, while
\* another session streams
C27_Witness ==
  /\ dpc.pc = "lines"
  /\ dpc.conn \notin DOMAIN clients
  /\ dpc.buf = Text("{start_send")
  /\ \E d \in DOMAIN clients : clients[d].streaming

====
